---- MODULE Spec2Model ----
(***************************************************************************)
(* FootLens injury-impact dashboard (Summative.py).                        *)
(*                                                                         *)
(* load_data enriches a raw table read from a CSV file; main filters the   *)
(* enriched table by the sidebar selections and builds the summary         *)
(* scalars and the five visuals.                                           *)
(*                                                                         *)
(* Numbers are exact rationals n/d (binary rounding of float64 is not      *)
(* modelled); NaN is a value of its own.  Text cells are sequences of      *)
(* one-character strings.                                                  *)
(***************************************************************************)
EXTENDS Integers, Sequences, FiniteSets, TLC

VARIABLES
  csv,        \* the table pd.read_csv returns for the source path
  cache,      \* st.cache_data entry of load_data for that path
  parses,     \* how many times the body of load_data has run
  df,         \* main's dataset object as the last run left it
  season_filter,        \* value of the "Season" multiselect
  team_filter,          \* value of the "Team" multiselect
  player_filter,        \* value of the "Player" multiselect
  player_for_timeline,  \* value of the timeline selectbox
  page,       \* what the last run of main computed and displayed
  cell,       \* a raw cell of a rating / goal-difference column
  cleaned,    \* clean_numeric(cell)
  recleaned   \* clean_numeric(clean_numeric(cell))

cleanVars == <<cell, cleaned, recleaned>>
loadVars == <<csv, cache, parses>>
viewVars == <<df, season_filter, team_filter, player_filter, player_for_timeline, page>>
vars == <<csv, cache, parses, df, season_filter, team_filter, player_filter,
          player_for_timeline, page, cell, cleaned, recleaned>>

(***************************************************************************)
(* Bounds                                                                  *)
(***************************************************************************)
MaxLen == 4        \* longest enumerated cell text
MaxLoadRows == 2   \* rows of the tables the metrics pipeline is run on
MaxRows == 3       \* rows of the tables the dashboard is run on

(***************************************************************************)
(* Values: NaN, numbers, text                                              *)
(***************************************************************************)
NaN == [k |-> "nan"]
Unset == [k |-> "unset"]

\* Body(e), with e evaluated once
With(e, Body(_)) == CHOOSE r \in {Body(x) : x \in {e}} : TRUE

Abs(i) == IF i < 0 THEN -i ELSE i

Gcd[a \in Nat, b \in Nat] == IF b = 0 THEN a ELSE Gcd[b, a % b]

\* the number n/d, d > 0, in lowest terms
Num(n, d) ==
  With(Gcd[Abs(n), d], LAMBDA g : [k |-> "num", n |-> n \div g, d |-> d \div g])

Txt(s) == [k |-> "str", s |-> s]

\* pd.isna / pd.notna on a scalar
IsNa(v) == v.k = "nan"
NotNa(v) == v.k # "nan"

\* float subtraction: NaN if either operand is NaN
Sub(a, b) ==
  IF IsNa(a) \/ IsNa(b) THEN NaN
  ELSE Num(a.n * b.d - b.n * a.d, a.d * b.d)

Add(a, b) == Num(a.n * b.d + b.n * a.d, a.d * b.d)

\* a * i = b, for numbers a, b and an integer i
TimesIs(a, i, b) == a.n * i * b.d = b.n * a.d

Less(a, b) == a.n * b.d < b.n * a.d

\* the sum of the first n numbers of s
RECURSIVE SumSeq(_, _)
SumSeq(s, n) ==
  IF n = 0 THEN Num(0, 1)
  ELSE With(SumSeq(s, n - 1), LAMBDA t : Num(t.n * s[n].d + s[n].n * t.d, t.d * s[n].d))

\* the mean of all values, NaN as soon as one of them is NaN
MeanAnyNa(s) ==
  IF s = <<>> \/ \E i \in 1..Len(s) : IsNa(s[i]) THEN NaN
  ELSE With(SumSeq(s, Len(s)), LAMBDA t : Num(t.n, t.d * Len(s)))

\* Series.mean() / DataFrame.mean(axis=1, skipna=True) over the values s:
\* the mean of the non-NaN values, NaN when there is none
Mean(s) ==
  With(SelectSeq(s, NotNa), LAMBDA nn :
    IF nn = <<>> THEN NaN
    ELSE With(SumSeq(nn, Len(nn)), LAMBDA t : Num(t.n, t.d * Len(nn))))

\* the members of S in some order
RECURSIVE SetToSeq(_)
SetToSeq(S) ==
  IF S = {} THEN <<>>
  ELSE With(CHOOSE y \in S : TRUE, LAMBDA x : <<x>> \o SetToSeq(S \ {x}))

RECURSIVE Pow10(_)
Pow10(e) == IF e = 0 THEN 1 ELSE 10 * Pow10(e - 1)

(***************************************************************************)
(* Text helpers (str.strip, str.replace, re.sub, str, float)               *)
(***************************************************************************)
Digits == <<"0", "1", "2", "3", "4", "5", "6", "7", "8", "9">>

IsDigit(c) == \E i \in 1..10 : Digits[i] = c
DigitVal(c) == (CHOOSE i \in 1..10 : Digits[i] = c) - 1

\* str.lower on one character
LowerChar(c) ==
  CASE c = "N" -> "n" [] c = "A" -> "a" [] c = "S" -> "s"
    [] c = "O" -> "o" [] c = "E" -> "e" [] OTHER -> c

LowerSeq(s) == [i \in 1..Len(s) |-> LowerChar(s[i])]

\* str.strip(): without the blanks at both ends
Strip(s) ==
  With({i \in 1..Len(s) : s[i] # " "}, LAMBDA I :
    IF I = {} THEN <<>>
    ELSE SubSeq(s, CHOOSE i \in I : \A j \in I : i <= j,
                   CHOOSE i \in I : \A j \in I : j <= i))

\* re.sub(r"\(.*?\)", "", s), s scanned from position i: each "(" that has
\* a ")" after it is removed together with everything up to the first such ")"
RECURSIVE RemoveParensFrom(_, _)
RemoveParensFrom(s, i) ==
  IF i > Len(s) THEN <<>>
  ELSE IF s[i] = "(" /\ \E j \in (i + 1)..Len(s) : s[j] = ")"
       THEN RemoveParensFrom(s, 1 + CHOOSE x \in (i + 1)..Len(s) :
                                      s[x] = ")" /\ \A y \in (i + 1)..(x - 1) : s[y] # ")")
       ELSE <<s[i]>> \o RemoveParensFrom(s, i + 1)

RemoveParens(s) == RemoveParensFrom(s, 1)

\* s.replace(",", "")
RemoveCommas(s) == SelectSeq(s, LAMBDA c : c # ",")

\* the number the first n digits of s denote
RECURSIVE DigitsVal(_, _)
DigitsVal(s, n) ==
  IF n = 0 THEN 0 ELSE 10 * DigitsVal(s, n - 1) + DigitVal(s[n])

\* float(s) inside try/except: the number, or NaN where float() raises or
\* returns nan ("nan" in any letter case, signed or not).  Exponents,
\* underscores and "inf" lie outside the cell alphabet.
\* the unsigned decimal body with its "." (if any) at position p
Magnitude(body, p) ==
  With(SubSeq(body, 1, p - 1) \o SubSeq(body, p + 1, Len(body)), LAMBDA ds :
    [mag |-> DigitsVal(ds, Len(ds)), scale |-> Pow10(Len(body) - p)])

ParseFloat(s0) ==
  With(Strip(s0), LAMBDA s :
    With(IF s # <<>> /\ (s[1] = "-" \/ s[1] = "+") THEN Tail(s) ELSE s, LAMBDA body :
      With({i \in 1..Len(body) : body[i] = "."}, LAMBDA dots :
        IF /\ \A i \in 1..Len(body) : IsDigit(body[i]) \/ body[i] = "."
           /\ Cardinality(dots) <= 1
           /\ \E i \in 1..Len(body) : IsDigit(body[i])
        THEN With(IF dots = {} THEN Magnitude(body \o <<".">>, Len(body) + 1)
                  ELSE Magnitude(body, CHOOSE i \in dots : TRUE), LAMBDA m :
               Num(IF s[1] = "-" THEN -m.mag ELSE m.mag, m.scale))
        ELSE NaN)))

\* the decimal digits of a natural number
NatStr[i \in Nat] ==
  IF i < 10 THEN <<Digits[i + 1]>> ELSE NatStr[i \div 10] \o <<Digits[(i % 10) + 1]>>

\* the decimal digits of r/d, r < d, d a divisor of a power of ten
FracStr[r \in Nat, d \in Nat] ==
  IF r = 0 THEN <<>>
  ELSE <<Digits[((10 * r) \div d) + 1]>> \o FracStr[(10 * r) % d, d]

\* str(x) of a float: shortest decimal that round-trips, always with a
\* fractional part ("85.0"); the exponent form starts below 1e-4 and at 1e16
FloatStr(q) ==
  With(FracStr[Abs(q.n) % q.d, q.d], LAMBDA f :
    (IF q.n < 0 THEN <<"-">> ELSE <<>>)
      \o NatStr[Abs(q.n) \div q.d] \o <<".">> \o (IF f = <<>> THEN <<"0">> ELSE f))

\* str(val)
Str(v) == IF v.k = "str" THEN v.s ELSE FloatStr(v)

(***************************************************************************)
(* clean_numeric                                                           *)
(***************************************************************************)
SentinelList ==
  { <<>>, <<"N", ".", "A", ".">>, <<"N", ".", "A">>, <<"N", "A">>,
    <<"n", ".", "a", ".">>, <<"-">>, <<"N", "o", "n", "e">> }

\* a variant that removes the decimal point along with the commas
StripSeparators(s) == SelectSeq(s, LAMBDA c : c \notin {",", "."})

\* a variant that leaves the commas in
NoCommaRemoval(s) == s

\* .replace(",", "")
StripThousands(s) == RemoveCommas(s)

StripAnnotations(s) == RemoveParens(s)

clean_numeric(val) ==
  IF IsNa(val) THEN NaN
  ELSE With(Strip(Str(val)), LAMBDA s :
         IF s \in SentinelList THEN NaN
         ELSE ParseFloat(Strip(StripThousands(StripAnnotations(s)))))

(***************************************************************************)
(* Specification of a single cell: clean it, then clean the result again   *)
(* (the loop of lines 68-69 applied to an already cleaned column)          *)
(***************************************************************************)
Alphabet == {"1", ",", "(", ")", "N", "A", "a", ".", "-", " "}

ExampleCells ==
  { <<"1", ",", "2", "3", "4">>, <<"8", "5", " ", "(", "S", ")">>,
    <<"N", "o", "n", "e">>, <<"N", "O", "N", "E">>, <<"n", ".", "a">>,
    <<"n", ".", "a", ".">>, <<" ", "N", ".", "A", ".", " ">>,
    <<"N", "A", " ", "(", "S", ")">>, <<"-", "5">>, <<"0", ".", "0", "5">>,
    <<"7", ".", "2", "5", " ", "(", "a", ")", " ", "(", "S", ")">> }

\* what read_csv can put in a cell besides text: NaN or a float (numeric column)
ExampleNumbers == {NaN, Num(0, 1), Num(-3, 2), Num(1234, 1), Num(17, 4)}

InitClean ==
  /\ \/ cell \in ExampleNumbers
     \/ \E s \in ExampleCells : cell = Txt(s)
     \/ \E n \in 0..MaxLen : \E s \in [1..n -> Alphabet] : cell = Txt(s)
  /\ cleaned = Unset
  /\ recleaned = Unset
  /\ csv = Unset
  /\ cache = Unset
  /\ parses = 0
  /\ df = Unset
  /\ season_filter = {}
  /\ team_filter = {}
  /\ player_filter = {}
  /\ player_for_timeline = Unset
  /\ page = Unset

Clean ==
  /\ cleaned = Unset
  /\ cleaned' = clean_numeric(cell)
  /\ UNCHANGED <<cell, recleaned>>
  /\ UNCHANGED <<loadVars, viewVars>>

Reclean ==
  /\ cleaned # Unset
  /\ recleaned = Unset
  /\ recleaned' = clean_numeric(cleaned)
  /\ UNCHANGED <<cell, cleaned>>
  /\ UNCHANGED <<loadVars, viewVars>>

NextClean == Clean \/ Reclean

SpecClean == InitClean /\ [][NextClean]_vars

(***************************************************************************)
(* Column labels.  A label is an atomic string; Tokens gives the pieces    *)
(* the substring tests of lines 64-65, 72-73 and 88-89 look for.           *)
(***************************************************************************)
RB1 == "Match1_before_injury_Player_rating"
RB2 == "Match2_Before_Injury_Player_rating"
RA1 == "Match1_after_injury_Player_rating"
GB1 == "Match1_before_injury_GD"
GM1 == "Match1_missed_match_GD"
GA1 == "Match1_after_injury_GD"
RES == "Match1_before_injury_Result"

Tokens(c) ==
  CASE c = RB1 -> <<"Match1", "_", "before", "_injury_", "Player_rating">>
    [] c = RB2 -> <<"Match2", "_", "Before", "_Injury_", "Player_rating">>
    [] c = RA1 -> <<"Match1", "_", "after", "_injury_", "Player_rating">>
    [] c = GB1 -> <<"Match1", "_", "before", "_injury", "_GD">>
    [] c = GM1 -> <<"Match1", "_", "missed", "_match", "_GD">>
    [] c = GA1 -> <<"Match1", "_", "after", "_injury", "_GD">>
    [] c = RES -> <<"Match1", "_", "before", "_injury_", "Result">>
    [] OTHER -> <<c>>

\* str.lower on a piece of a label
LowerTok(t) ==
  CASE t = "Before" -> "before" [] t = "_Injury_" -> "_injury_"
    [] t = "Player_rating" -> "player_rating" [] t = "_GD" -> "_gd"
    [] t = "Match1" -> "match1" [] t = "Match2" -> "match2"
    [] t = "Result" -> "result" [] OTHER -> t

\* sub in c
Contains(c, sub) == \E i \in DOMAIN Tokens(c) : Tokens(c)[i] = sub

\* sub in c.lower()
LowerContains(c, sub) == \E i \in DOMAIN Tokens(c) : LowerTok(Tokens(c)[i]) = sub

\* c.endswith(suffix)
EndsWith(c, suffix) == Tokens(c)[Len(Tokens(c))] = suffix

(***************************************************************************)
(* Dates: pd.to_datetime(errors="coerce"), .dt.month_name(), .dt.year      *)
(***************************************************************************)
month_order ==
  << "January", "February", "March", "April", "May", "June",
     "July", "August", "September", "October", "November", "December" >>

Date(y, m, d) == [k |-> "date", y |-> y, m |-> m, d |-> d]

\* the date a cell text denotes; NaT (a NaN) for a missing cell and for
\* text that is no date
to_datetime(v) ==
  IF IsNa(v) THEN NaN
  ELSE CASE v.s = "2020-03-15" -> Date(2020, 3, 15)
         [] v.s = "2021-03-02" -> Date(2021, 3, 2)
         [] v.s = "2021-01-10" -> Date(2021, 1, 10)
         [] v.s = "2020-12-28" -> Date(2020, 12, 28)
         [] OTHER -> NaN

month_name(d) == IF IsNa(d) THEN NaN ELSE Txt(month_order[d.m])

year(d) == IF IsNa(d) THEN NaN ELSE Num(d.y, 1)

(***************************************************************************)
(* load_data                                                               *)
(***************************************************************************)
DerivedCols ==
  { "Injury_Month", "Injury_Year", "avg_rating_before", "avg_rating_after",
    "rating_change", "team_gd_before", "team_gd_missed",
    "performance_drop_index" }

\* rename_map of lines 31-38
Renamed(c) ==
  CASE c = "Name" -> "Player_Name"
    [] c = "Team Name" -> "Team"
    [] c = "FIFA rating" -> "FIFA_Rating"
    [] OTHER -> c

rating_cols(cols) == {c \in cols : Contains(c, "Player_rating")}

gd_cols(cols) == {c \in cols : EndsWith(c, "_GD")}

before_rating_cols(cols) == {c \in rating_cols(cols) : LowerContains(c, "before")}

after_rating_cols(cols) == {c \in rating_cols(cols) : LowerContains(c, "after")}

before_gd_cols(cols) == {c \in gd_cols(cols) : LowerContains(c, "before")}

missed_gd_cols(cols) == {c \in gd_cols(cols) : LowerContains(c, "missed")}

\* df[group].mean(axis=1, skipna=True) for one row, NaN for an empty group
RowMean(r, group) ==
  With(SetToSeq(group), LAMBDA g : Mean([i \in 1..Len(g) |-> r[g[i]]]))

\* lines 64-65, 72-73, 88-89: the column groups found by name
ColumnGroups(cols) ==
  [numeric       |-> rating_cols(cols) \cup gd_cols(cols),
   before_rating |-> before_rating_cols(cols),
   after_rating  |-> after_rating_cols(cols),
   before_gd     |-> before_gd_cols(cols),
   missed_gd     |-> missed_gd_cols(cols)]

\* lines 25-38, 68-69: a row after date parsing, renaming and numeric cleaning
Base(r, cols, g) ==
  [c \in cols |->
     With(r[CHOOSE c0 \in DOMAIN r : Renamed(c0) = c], LAMBDA v :
       IF c \in {"Date of Injury", "Date of return"} THEN to_datetime(v)
       ELSE IF c \in g.numeric THEN clean_numeric(v)
       ELSE v)]

\* lines 41-46, 75-102: the columns load_data adds to a row b
Derived(b, g) ==
  With(IF "Date of Injury" \in DOMAIN b THEN b["Date of Injury"] ELSE NaN, LAMBDA doi :
    With(<<RowMean(b, g.before_rating), RowMean(b, g.after_rating),
           RowMean(b, g.before_gd), RowMean(b, g.missed_gd)>>, LAMBDA m :
      [Injury_Month           |-> month_name(doi),
       Injury_Year            |-> year(doi),
       avg_rating_before      |-> m[1],
       avg_rating_after       |-> m[2],
       rating_change          |-> Sub(m[2], m[1]),
       team_gd_before         |-> m[3],
       team_gd_missed         |-> m[4],
       performance_drop_index |-> Sub(m[3], m[4])]))

\* the first n rows, enriched; an added column replaces one of that name
RECURSIVE EnrichRows(_, _, _, _)
EnrichRows(rows, n, cols, g) ==
  IF n = 0 THEN <<>>
  ELSE Append(EnrichRows(rows, n - 1, cols, g),
              With(Base(rows[n], cols, g), LAMBDA b : Derived(b, g) @@ b))

load_data(table) ==
  With({Renamed(c) : c \in table.cols}, LAMBDA cols :
    With(ColumnGroups(cols), LAMBDA g :
      [k    |-> "df",
       cols |-> cols \cup DerivedCols,
       rows |-> EnrichRows(table.rows, Len(table.rows), cols, g)]))

(***************************************************************************)
(* Specification of the metrics pipeline alone: load_data run on tables    *)
(* of rating and goal-difference columns                                   *)
(***************************************************************************)
LoadSchemas ==
  { {}, {RB1, RB2, RA1}, {RB2, RA1}, {GB1, GM1}, {GB1, GA1}, {GM1, RES} }

NumericCells ==
  { Txt(<<"N", ".", "A", ".">>), Txt(<<"2">>), Txt(<<"-", "1", " ", "(", "S", ")">>) }

Table(cols, rows) == [k |-> "csv", cols |-> cols, rows |-> rows]

InitLoad ==
  /\ \E cols \in LoadSchemas : \E n \in 1..MaxLoadRows :
       \E rows \in [1..n -> [cols -> NumericCells]] : csv = Table(cols, rows)
  /\ cache = Unset
  /\ parses = 0
  /\ df = Unset
  /\ season_filter = {}
  /\ team_filter = {}
  /\ player_filter = {}
  /\ player_for_timeline = Unset
  /\ page = Unset
  /\ cell = Unset
  /\ cleaned = Unset
  /\ recleaned = Unset

LoadData ==
  /\ cache = Unset
  /\ cache' = load_data(csv)
  /\ parses' = parses + 1
  /\ UNCHANGED <<csv, viewVars, cleanVars>>

NextLoad == LoadData

SpecLoad == InitLoad /\ [][NextLoad]_vars

(***************************************************************************)
(* Frame helpers used by main                                              *)
(***************************************************************************)
\* Python's ordering of the labels that occur in identity columns
Collation ==
  << "2019/20", "2020/21", "Arsenal", "Chelsea", "Kane", "Salah" >>

Rank(v) == CHOOSE i \in 1..Len(Collation) : Collation[i] = v.s

\* sorted(S) for a set of labels
RECURSIVE Sorted(_)
Sorted(S) ==
  IF S = {} THEN <<>>
  ELSE With(CHOOSE y \in S : \A z \in S : Rank(y) <= Rank(z), LAMBDA x :
         <<x>> \o Sorted(S \ {x}))

\* frame[c].dropna().unique(), as a set
Unique(rows, c) == {rows[i][c] : i \in 1..Len(rows)} \ {NaN}

\* Series.isin(values)
isin(v, values) == v \in values

\* sort_values(by, ascending=False): descending, NaN last; equal keys keep
\* their order (the order pandas gives equal keys is not specified, and
\* nothing below depends on it)
DescendingOrder(a, b) == Less(b, a)

\* whether the row with key a at position i comes before the row with key b
\* at position j
Precedes(a, i, b, j) ==
  IF IsNa(a) /\ IsNa(b) THEN i < j
  ELSE IF IsNa(a) THEN FALSE
  ELSE IF IsNa(b) THEN TRUE
  ELSE DescendingOrder(a, b) \/ (a = b /\ i < j)

sort_values_desc(s, by) ==
  With({<<1 + Cardinality({j \in 1..Len(s) : j # i /\ Precedes(s[j][by], j, s[i][by], i)}), i>>
          : i \in 1..Len(s)}, LAMBDA place :
    [p \in 1..Len(s) |-> s[CHOOSE i \in 1..Len(s) : <<p, i>> \in place]])

\* DataFrame.head(n)
head(s, n) == IF Len(s) <= n THEN s ELSE SubSeq(s, 1, n)

TopDropsShown == 10

LeaderboardShown == 15

\* row.get(c, "")
Get(r, c) == IF c \in DOMAIN r THEN r[c] ELSE Txt("")

(***************************************************************************)
(* main: sidebar options, filtering, summary scalars (lines 133-198)       *)
(***************************************************************************)
seasons(d) == IF "Season" \in d.cols THEN Unique(d.rows, "Season") ELSE {}

teams(d) == IF "Team" \in d.cols THEN Unique(d.rows, "Team") ELSE {}

players(d) == IF "Player_Name" \in d.cols THEN Unique(d.rows, "Player_Name") ELSE {}

SeasonFiltered(d, rows, sf) ==
  IF "Season" \in d.cols /\ sf # {}
  THEN SelectSeq(rows, LAMBDA r : isin(r["Season"], sf))
  ELSE rows

\* a variant in which an empty team selection selects no record
TeamFilterExcludesAll(rows, tf) == SelectSeq(rows, LAMBDA r : isin(r["Team"], tf))

TeamFiltered(rows, tf) ==
  IF tf # {} THEN SelectSeq(rows, LAMBDA r : isin(r["Team"], tf)) ELSE rows

PlayerFiltered(rows, pf) ==
  IF pf # {} THEN SelectSeq(rows, LAMBDA r : isin(r["Player_Name"], pf)) ELSE rows

\* lines 168-175
Filtered(d, sf, tf, pf) ==
  PlayerFiltered(TeamFiltered(SeasonFiltered(d, d.rows, sf), tf), pf)

Col(rows, c) == [i \in 1..Len(rows) |-> rows[i][c]]

\* Series.nunique()
nunique(rows, c) == Cardinality(Unique(rows, c))

(***************************************************************************)
(* Visual 1: top 10 by performance drop (lines 207-230)                    *)
(***************************************************************************)
top_drops(filtered) ==
  head(sort_values_desc(filtered, "performance_drop_index"), TopDropsShown)

\* "chart", "info" (the st.info placeholder) or "raised" (px.bar raises
\* ValueError when x names no column of the frame)
Visual1(d, filtered) ==
  IF \E i \in 1..Len(filtered) : NotNa(filtered[i]["performance_drop_index"])
  THEN IF "Player_Name" \in d.cols THEN "chart" ELSE "raised"
  ELSE "info"

(***************************************************************************)
(* Visual 2: player timeline (lines 239-290)                               *)
(***************************************************************************)
TimelineOptions(d, filtered) ==
  IF "Player_Name" \in d.cols THEN Unique(filtered, "Player_Name") ELSE {}

Point(r, phase, order, rating) ==
  [Player_Name |-> Get(r, "Player_Name"), Team |-> Get(r, "Team"),
   Season |-> Get(r, "Season"), Phase |-> phase, Phase_Order |-> order,
   Avg_Rating |-> rating]

\* the points of the first n rows of player_df
RECURSIVE timeline_rows(_, _)
timeline_rows(player_df, n) ==
  IF n = 0 THEN <<>>
  ELSE With(player_df[n], LAMBDA row :
         timeline_rows(player_df, n - 1)
           \o (IF NotNa(row["avg_rating_before"])
               THEN <<Point(row, "Before injury", -1, row["avg_rating_before"])>>
               ELSE <<>>)
           \o (IF NotNa(row["avg_rating_after"])
               THEN <<Point(row, "After injury", 1, row["avg_rating_after"])>>
               ELSE <<>>))

\* timeline_df.sort_values("Phase_Order"): the "before" points, then the
\* "after" points
timeline_sorted(points) ==
  SelectSeq(points, LAMBDA p : p.Phase_Order = -1)
    \o SelectSeq(points, LAMBDA p : p.Phase_Order = 1)

player_df(filtered, player) ==
  SelectSeq(filtered, LAMBDA r : r["Player_Name"] = player)

\* pd.DataFrame([]) has no columns, so dropna(subset=["Avg_Rating"]) raises
\* KeyError when no point was collected
timeline_df(filtered, player) ==
  With(player_df(filtered, player), LAMBDA pdf :
    timeline_sorted(timeline_rows(pdf, Len(pdf))))

Visual2(d, filtered, player) ==
  IF TimelineOptions(d, filtered) = {} THEN "info"
  ELSE IF timeline_df(filtered, player) = <<>> THEN "raised"
  ELSE "chart"

(***************************************************************************)
(* Visual 3: injury frequency heatmap (lines 299-329)                      *)
(***************************************************************************)
\* groupby(["Team", "Injury_Month"]).size(): the key pairs, without those
\* holding a NaN, and the size of each group
heat_keys(filtered) ==
  { <<filtered[i]["Team"], filtered[i]["Injury_Month"]>> : i \in
      {j \in 1..Len(filtered) :
         NotNa(filtered[j]["Team"]) /\ NotNa(filtered[j]["Injury_Month"])} }

group_size(filtered, t, m) ==
  Cardinality({i \in 1..Len(filtered) :
                 filtered[i]["Team"] = t /\ filtered[i]["Injury_Month"] = m})

\* a variant that gives the grid a column for every month of the year
AllMonths(present) == month_order

PresentMonths(present) ==
  SelectSeq(month_order, LAMBDA m : Txt(m) \in present)

\* pivot(index="Team", columns="Injury_Month").fillna(0), columns reindexed
\* to the months of month_order that are columns of the pivot
heat_pivot(filtered) ==
  With(heat_keys(filtered), LAMBDA keys :
    With(PresentMonths({kv[2] : kv \in keys}), LAMBDA cols :
      [index   |-> Sorted({kv[1] : kv \in keys}),
       columns |-> cols,
       values  |-> [t \in {kv[1] : kv \in keys}, m \in {cols[i] : i \in 1..Len(cols)} |->
                      IF <<t, Txt(m)>> \in keys THEN group_size(filtered, t, Txt(m)) ELSE 0]]))

Visual3(d, filtered) ==
  IF "Team" \in d.cols /\ "Injury_Month" \in d.cols
  THEN IF heat_keys(filtered) # {} THEN "chart" ELSE "info"
  ELSE "info"

(***************************************************************************)
(* Visual 4: age against performance drop (lines 338-360)                  *)
(***************************************************************************)
scatter_df(filtered) ==
  SelectSeq(filtered, LAMBDA r : NotNa(r["Age"]) /\ NotNa(r["performance_drop_index"]))

Visual4(d, filtered) ==
  IF "Age" \in d.cols /\ \E i \in 1..Len(filtered) : NotNa(filtered[i]["Age"])
  THEN IF scatter_df(filtered) # <<>> THEN "chart" ELSE "info"
  ELSE "info"

(***************************************************************************)
(* Visual 5: comeback leaderboard (lines 369-396)                          *)
(***************************************************************************)
\* keys of groupby(["Player_Name", "Team"]): pairs without NaN
leader_keys(filtered) ==
  { <<filtered[i]["Player_Name"], filtered[i]["Team"]>> : i \in
      {j \in 1..Len(filtered) :
         NotNa(filtered[j]["Player_Name"]) /\ NotNa(filtered[j]["Team"])} }

\* groupby orders the groups by key
RECURSIVE SortedKeys(_)
SortedKeys(K) ==
  IF K = {} THEN <<>>
  ELSE With(CHOOSE y \in K : \A z \in K :
                   \/ Rank(y[1]) < Rank(z[1])
                   \/ (Rank(y[1]) = Rank(z[1]) /\ Rank(y[2]) <= Rank(z[2])), LAMBDA x :
         <<x>> \o SortedKeys(K \ {x}))

group_rows(filtered, key) ==
  SelectSeq(filtered, LAMBDA r : r["Player_Name"] = key[1] /\ r["Team"] = key[2])

\* ("Injury", "count") if "Injury" in filtered.columns else ("Player_Name", "count"):
\* count() is the number of non-NaN values of the column in the group
Injuries_Count(d, g) ==
  IF "Injury" \in d.cols
  THEN Len(SelectSeq(g, LAMBDA r : NotNa(r["Injury"])))
  ELSE Len(SelectSeq(g, LAMBDA r : NotNa(r["Player_Name"])))

\* .agg(...) of one group
Aggregate(d, key, g) ==
  [Player_Name       |-> key[1],
   Team              |-> key[2],
   Injuries_Count    |-> Injuries_Count(d, g),
   Avg_Rating_Before |-> Mean(Col(g, "avg_rating_before")),
   Avg_Rating_After  |-> Mean(Col(g, "avg_rating_after")),
   Avg_Rating_Change |-> Mean(Col(g, "rating_change"))]

\* the aggregates of the first n groups
RECURSIVE Aggregates(_, _, _, _)
Aggregates(d, filtered, keys, n) ==
  IF n = 0 THEN <<>>
  ELSE Append(Aggregates(d, filtered, keys, n - 1),
              With(group_rows(filtered, keys[n]), LAMBDA g : Aggregate(d, keys[n], g)))

leaderboard(d, filtered) ==
  With(SortedKeys(leader_keys(filtered)), LAMBDA keys :
    With(Aggregates(d, filtered, keys, Len(keys)), LAMBDA agg :
      head(sort_values_desc(agg, "Avg_Rating_Change"), LeaderboardShown)))

\* groupby raises KeyError when the frame has no "Team" column
Visual5(d, filtered) ==
  IF "Player_Name" \in d.cols /\ "rating_change" \in d.cols
  THEN IF "Team" \in d.cols THEN "chart" ELSE "raised"
  ELSE "info"

(***************************************************************************)
(* One run of the script.  An exception ends the run: the visuals after    *)
(* the one that raised are not produced ("skipped").                       *)
(***************************************************************************)
NotShown == [k |-> "none"]

\* st.selectbox: a selectbox whose options are those of the last run keeps
\* the value picked there; one with other options is a new widget and shows
\* its first option
SelectboxValue(options, shown, choice) ==
  IF options = {} THEN Unset
  ELSE IF options = shown /\ choice \in options THEN choice
  ELSE Sorted(options)[1]

\* the outcomes of the five visuals, in the order the script reaches them
Outcomes(d, filtered, player) ==
  With(Visual1(d, filtered), LAMBDA v1 :
    IF v1 = "raised" THEN <<v1, "skipped", "skipped", "skipped", "skipped">>
    ELSE With(Visual2(d, filtered, player), LAMBDA v2 :
           IF v2 = "raised" THEN <<v1, v2, "skipped", "skipped", "skipped">>
           ELSE <<v1, v2, Visual3(d, filtered), Visual4(d, filtered), Visual5(d, filtered)>>))

Page(d, filtered, player, v) ==
  [k |-> "page",
   filtered       |-> filtered,
   total_injuries |-> Len(filtered),
   unique_players |-> IF "Player_Name" \in d.cols THEN nunique(filtered, "Player_Name") ELSE 0,
   unique_teams   |-> IF "Team" \in d.cols THEN nunique(filtered, "Team") ELSE 0,
   avg_drop       |-> Mean(Col(filtered, "performance_drop_index")),
   visual1        |-> v[1],
   top_drops      |-> IF v[1] = "info" THEN NotShown ELSE top_drops(filtered),
   visual2        |-> v[2],
   options        |-> IF v[2] \in {"chart", "raised"} THEN TimelineOptions(d, filtered) ELSE {},
   player         |-> IF v[2] \in {"chart", "raised"} THEN player ELSE Unset,
   timeline_df    |-> IF v[2] = "chart" THEN timeline_df(filtered, player) ELSE NotShown,
   visual3        |-> v[3],
   heat_pivot     |-> IF v[3] = "chart" THEN heat_pivot(filtered) ELSE NotShown,
   visual4        |-> v[4],
   scatter_df     |-> IF v[4] = "chart" THEN scatter_df(filtered) ELSE NotShown,
   visual5        |-> v[5],
   leaderboard    |-> IF v[5] = "chart" THEN leaderboard(d, filtered) ELSE NotShown]

main(d, sf, tf, pf, shown, choice) ==
  With(Filtered(d, sf, tf, pf), LAMBDA filtered :
    With(SelectboxValue(TimelineOptions(d, filtered), shown, choice), LAMBDA player :
      With(Outcomes(d, filtered, player), LAMBDA v : Page(d, filtered, player, v))))

(***************************************************************************)
(* The dashboard: first render, then one widget change per rerun           *)
(***************************************************************************)
Kane == Txt("Kane")
Salah == Txt("Salah")
Arsenal == Txt("Arsenal")
Chelsea == Txt("Chelsea")

N(s) == Txt(s)

Row(name, team, season, injury, age, doi, rb, ra, gb, gm) ==
  [c \in {"Name", "Team Name", "Season", "Injury", "Age", "Date of Injury",
          RB1, RA1, GB1, GM1} |->
     CASE c = "Name" -> name [] c = "Team Name" -> team [] c = "Season" -> season
       [] c = "Injury" -> injury [] c = "Age" -> age [] c = "Date of Injury" -> doi
       [] c = RB1 -> rb [] c = RA1 -> ra [] c = GB1 -> gb [] c = GM1 -> gm]

RowPool ==
  << Row(Kane, Arsenal, Txt("2019/20"), Txt("Knee"), Num(25, 1), Txt("2020-03-15"),
         N(<<"6", ".", "5">>), N(<<"7", ".", "5">>), N(<<"2">>), N(<<"-", "1">>)),
     Row(Kane, Arsenal, Txt("2020/21"), NaN, Num(26, 1), Txt("2021-03-02"),
         N(<<"6">>), N(<<"9">>), N(<<"1">>), N(<<"1">>)),
     Row(Salah, Chelsea, Txt("2019/20"), Txt("Hamstring"), NaN, Txt("2021-01-10"),
         N(<<"N", ".", "A", ".">>), N(<<"7">>), N(<<"3">>), N(<<"N", ".", "A", ".">>)),
     Row(Salah, Arsenal, NaN, Txt("Knee"), Num(30, 1), Txt("unknown"),
         N(<<"7", " ", "(", "S", ")">>), N(<<"6">>), N(<<"-", "1">>), N(<<"-", "3">>)),
     Row(NaN, Chelsea, Txt("2020/21"), Txt("Ankle"), Num(22, 1), Txt("2020-12-28"),
         NaN, NaN, N(<<"4">>), N(<<"-", "1">>)),
     Row(Salah, NaN, Txt("2020/21"), Txt("Ankle"), Num(28, 1), NaN,
         NaN, NaN, NaN, N(<<"2">>)) >>

FullSchema ==
  {"Name", "Team Name", "Season", "Injury", "Age", "Date of Injury", RB1, RA1, GB1, GM1}

ViewSchemas ==
  { FullSchema, FullSchema \ {"Name"}, FullSchema \ {"Team Name"},
    FullSchema \ {"Season"}, {"Name", "Team Name", "Season"} }

\* the rows of a file, up to their order: row numbers of RowPool, ascending
RowChoices ==
  UNION { {f \in [1..n -> 1..Len(RowPool)] : \A i \in 1..n : \A j \in 1..n : i < j => f[i] <= f[j]}
          : n \in 0..MaxRows }

ViewTables ==
  { Table(cols, [i \in 1..Len(f) |-> [c \in cols |-> RowPool[f[i]][c]]])
      : cols \in ViewSchemas, f \in RowChoices }

Init ==
  /\ csv \in ViewTables
  /\ cache = Unset
  /\ parses = 0
  /\ df = Unset
  /\ season_filter = {}
  /\ team_filter = {}
  /\ player_filter = {}
  /\ player_for_timeline = Unset
  /\ page = Unset
  /\ cell = Unset
  /\ cleaned = Unset
  /\ recleaned = Unset

\* @st.cache_data: the body of load_data runs when the path has no entry
CacheMiss(entry) == entry = Unset

\* filtered = df.copy(): the filters rebind filtered and leave df alone
\* a variant in which the filters are applied to the dataset itself
FilteredInPlace(d, filtered) == [d EXCEPT !.rows = filtered]

DatasetAfterRun(d, filtered) == d

\* one run of main with the widget values sf, tf, pf and the timeline choice
Run(sf, tf, pf, choice) ==
  \E d \in {IF CacheMiss(cache) THEN load_data(csv) ELSE cache} :
    \E pg \in {main(d, sf, tf, pf, IF page = Unset THEN {} ELSE page.options, choice)} :
      /\ cache' = d
      /\ parses' = (IF CacheMiss(cache) THEN parses + 1 ELSE parses)
      /\ df' = DatasetAfterRun(d, pg.filtered)
      /\ season_filter' = sf
      /\ team_filter' = tf
      /\ player_filter' = pf
      /\ player_for_timeline' = pg.player
      /\ page' = pg
      /\ UNCHANGED <<csv, cleanVars>>

\* a variant in which the season multiselect starts empty
NoDefaultSeasons(d) == {}

\* multiselect defaults: default=seasons, default=[], default=[]
DefaultSeasons(d) == seasons(d)

\* the first run of the script in a session
Render ==
  /\ page = Unset
  /\ parses = 0
  /\ \E d \in {load_data(csv)} : Run(DefaultSeasons(d), {}, {}, Unset)

Toggle(S, x) == IF x \in S THEN S \ {x} ELSE S \cup {x}

\* the user adds or removes one season, team or player
ToggleSeason ==
  /\ page # Unset
  /\ \E s \in seasons(df) : Run(Toggle(season_filter, s), team_filter, player_filter, player_for_timeline)

ToggleTeam ==
  /\ page # Unset
  /\ \E t \in teams(df) : Run(season_filter, Toggle(team_filter, t), player_filter, player_for_timeline)

TogglePlayer ==
  /\ page # Unset
  /\ \E p \in players(df) : Run(season_filter, team_filter, Toggle(player_filter, p), player_for_timeline)

\* the user picks another player in the timeline selectbox
SelectTimelinePlayer ==
  /\ page # Unset
  /\ \E p \in page.options \ {player_for_timeline} :
       Run(season_filter, team_filter, player_filter, p)

Next == Render \/ ToggleSeason \/ ToggleTeam \/ TogglePlayer \/ SelectTimelinePlayer

Spec == Init /\ [][Next]_vars

(***************************************************************************)
(* Properties                                                              *)
(***************************************************************************)
Rendered == page.k = "page"

PDI == "performance_drop_index"

\* C1: the rows handed to the Top-10 bar chart all have a non-null
\* performance_drop_index, are in descending order of it, and are at most 10.
C1_RankingExcludesNulls ==
  (Rendered /\ page.visual1 # "info") =>
    /\ Len(page.top_drops) <= 10
    /\ \A i \in 1..Len(page.top_drops) : NotNa(page.top_drops[i][PDI])
    /\ \A i \in 1..Len(page.top_drops) : \A j \in 1..Len(page.top_drops) :
         i < j => ~Less(page.top_drops[i][PDI], page.top_drops[j][PDI])

\* C2: a visual whose required column (Player_Name for the ranking, the
\* timeline and the leaderboard, Team for the grid and the leaderboard, Age
\* for the correlation) is absent from the dataset ends in the st.info
\* placeholder; it does not raise, nor is it lost to an earlier raise.
C2_AbsentColumnDegrades ==
  Rendered =>
    /\ "Player_Name" \notin df.cols =>
         (page.visual1 = "info" /\ page.visual2 = "info" /\ page.visual5 = "info")
    /\ "Team" \notin df.cols => (page.visual3 = "info" /\ page.visual5 = "info")
    /\ "Age" \notin df.cols => page.visual4 = "info"

\* a record passes a dimension when the dimension's selection is empty, its
\* column is absent, or the record's value is one of the selected values
Passes(r, column, selection) ==
  (selection # {} /\ column \in DOMAIN r) => r[column] \in selection

\* C3: the filtered subset is exactly the records that pass the season, the
\* team and the player dimension, in the dataset's order; with all three
\* selections empty it is the whole dataset.
C3_FilteredIsIntersection ==
  Rendered =>
    /\ page.filtered =
         SelectSeq(df.rows, LAMBDA r : /\ Passes(r, "Season", season_filter)
                                       /\ Passes(r, "Team", team_filter)
                                       /\ Passes(r, "Player_Name", player_filter))
    /\ (season_filter = {} /\ team_filter = {} /\ player_filter = {}) =>
         page.filtered = df.rows

C3_Witness ==
  /\ Rendered
  /\ season_filter # {} /\ team_filter # {} /\ player_filter # {}
  /\ Len(page.filtered) > 0
  /\ Len(page.filtered) < Len(df.rows)
  /\ \E i \in 1..Len(df.rows) :
       df.rows[i]["Season"] \in season_filter /\ df.rows[i]["Team"] \notin team_filter

\* the text of a cell after trimming, removing parenthetical annotations,
\* removing commas and trimming again
Normalised(s) == Strip(RemoveCommas(RemoveParens(Strip(s))))

SentinelsLower ==
  { <<>>, <<"n", ".", "a", ".">>, <<"n", ".", "a">>, <<"n", "a">>, <<"-">>,
    <<"n", "o", "n", "e">> }

\* an optional sign, then digits with at most one "." among them
IsNumberText(s) ==
  LET b == IF s # <<>> /\ s[1] \in {"-", "+"} THEN Tail(s) ELSE s
  IN  /\ \E i \in 1..Len(b) : IsDigit(b[i])
      /\ \A i \in 1..Len(b) :
           IsDigit(b[i]) \/ (b[i] = "." /\ \A j \in 1..Len(b) : b[j] = "." => j = i)

\* C4: a text cell is cleaned to null exactly when its normalised text is a
\* sentinel (in any letter case) or is no number; a missing cell stays null;
\* "-5" is -5, "1,234" is 1234.0 and "85 (S)" is 85.0.
C4_NullIffSentinelOrUnparseable ==
  cleaned # Unset =>
    /\ IsNa(cell) => IsNa(cleaned)
    /\ cell.k = "num" => cleaned = cell
    /\ cell.k = "str" =>
         (IsNa(cleaned) <=> \/ LowerSeq(Normalised(cell.s)) \in SentinelsLower
                            \/ ~IsNumberText(Normalised(cell.s)))
    /\ cell = Txt(<<"-", "5">>) => cleaned = Num(-5, 1)
    /\ cell = Txt(<<"1", ",", "2", "3", "4">>) => cleaned = Num(1234, 1)
    /\ cell = Txt(<<"8", "5", " ", "(", "S", ")">>) => cleaned = Num(85, 1)

C4_Witness ==
  /\ cell = Txt(<<"N", "A", " ", "(", "S", ")">>)
  /\ IsNa(cleaned)

\* C5: cleaning an already cleaned cell changes nothing.
C5_CleanIdempotent ==
  recleaned # Unset => recleaned = cleaned

C5_Witness ==
  /\ cell = Txt(<<"0", ".", "0", "5">>)
  /\ cleaned = Num(1, 20)
  /\ recleaned = Num(1, 20)

\* the records of the filtered subset in the group of a leaderboard row
GroupOf(row) ==
  SelectSeq(page.filtered, LAMBDA r : r["Player_Name"] = row.Player_Name /\ r["Team"] = row.Team)

\* m is the mean of the non-null values of column c over the records g
IsMeanOf(m, g, c) ==
  LET vals == SelectSeq(Col(g, c), NotNa)
  IN  IF vals = <<>> THEN IsNa(m)
      ELSE NotNa(m) /\ TimesIs(m, Len(vals), SumSeq(vals, Len(vals)))

\* C6: the leaderboard has one row per (player, team) group of the filtered
\* subset, with Injuries_Count the number of records of the group and the
\* three averages the means of the group's non-null values, sorted by
\* Avg_Rating_Change descending, at most 15 rows.
C6_LeaderboardPerGroup ==
  (Rendered /\ page.visual5 = "chart") =>
    LET lb == page.leaderboard
    IN  /\ Len(lb) <= 15
        /\ \A i \in 1..Len(lb) : \A j \in 1..Len(lb) :
             (lb[i].Player_Name = lb[j].Player_Name /\ lb[i].Team = lb[j].Team) => i = j
        /\ Len(lb) < 15 =>
             \A k \in 1..Len(page.filtered) :
               (NotNa(page.filtered[k]["Player_Name"]) /\ NotNa(page.filtered[k]["Team"])) =>
                 \E i \in 1..Len(lb) : /\ lb[i].Player_Name = page.filtered[k]["Player_Name"]
                                       /\ lb[i].Team = page.filtered[k]["Team"]
        /\ \A i \in 1..Len(lb) :
             /\ lb[i].Injuries_Count = Len(GroupOf(lb[i]))
             /\ lb[i].Injuries_Count > 0
             /\ IsMeanOf(lb[i].Avg_Rating_Before, GroupOf(lb[i]), "avg_rating_before")
             /\ IsMeanOf(lb[i].Avg_Rating_After, GroupOf(lb[i]), "avg_rating_after")
             /\ IsMeanOf(lb[i].Avg_Rating_Change, GroupOf(lb[i]), "rating_change")
        /\ \A i \in 1..Len(lb) : \A j \in 1..Len(lb) :
             (i < j /\ NotNa(lb[i].Avg_Rating_Change) /\ NotNa(lb[j].Avg_Rating_Change)) =>
               ~Less(lb[i].Avg_Rating_Change, lb[j].Avg_Rating_Change)

\* the number of filtered records of team t injured in month m
Injuries(t, m) ==
  Cardinality({i \in 1..Len(page.filtered) :
                 page.filtered[i]["Team"] = t /\ page.filtered[i]["Injury_Month"] = Txt(m)})

\* the filtered records that have both a team and an injury month
Dated == SelectSeq(page.filtered, LAMBDA r : NotNa(r["Team"]) /\ NotNa(r["Injury_Month"]))

\* a record without an injury date has no month and no year, and is still
\* in the dataset and counted
UndatedKept ==
  /\ \A i \in 1..Len(csv.rows) :
       ("Date of Injury" \in csv.cols /\ IsNa(csv.rows[i]["Date of Injury"])) =>
         (IsNa(df.rows[i]["Injury_Month"]) /\ IsNa(df.rows[i]["Injury_Year"]))
  /\ Len(df.rows) = Len(csv.rows)
  /\ page.total_injuries = Len(page.filtered)

\* C7 as stated: the grid has the twelve months January...December as its
\* columns, each cell the number of records of that team and month (zero
\* where there is none), and undated records are kept in the dataset.
C7_GridHasTwelveMonths ==
  (Rendered /\ page.visual3 = "chart") =>
    /\ page.heat_pivot.columns = month_order
    /\ \A t \in {page.heat_pivot.index[i] : i \in 1..Len(page.heat_pivot.index)} :
         \A i \in 1..Len(page.heat_pivot.columns) :
           page.heat_pivot.values[t, page.heat_pivot.columns[i]]
             = Injuries(t, page.heat_pivot.columns[i])
    /\ UndatedKept

\* C7 as amended: the grid's rows are the teams and its columns the months
\* that occur in a filtered record having both, the months in calendar
\* order; each cell is the number of records of that team and month (zero
\* where there is none); undated records are in no cell and are kept in the
\* dataset and the record count.
C7_GridOfPresentMonths ==
  (Rendered /\ page.visual3 = "chart") =>
    LET hp   == page.heat_pivot
        rows == {hp.index[i] : i \in 1..Len(hp.index)}
        cols == {hp.columns[i] : i \in 1..Len(hp.columns)}
        At(m) == CHOOSE i \in 1..12 : month_order[i] = m
    IN  /\ rows = {Dated[i]["Team"] : i \in 1..Len(Dated)}
        /\ cols = {Dated[i]["Injury_Month"].s : i \in 1..Len(Dated)}
        /\ \A i \in 1..Len(hp.columns) : \A j \in 1..Len(hp.columns) :
             i < j => At(hp.columns[i]) < At(hp.columns[j])
        /\ \A t \in rows : \A m \in cols : hp.values[t, m] = Injuries(t, m)
        /\ UndatedKept

C7_Witness ==
  /\ Rendered
  /\ page.visual3 = "chart"
  /\ page.heat_pivot.columns = <<"January", "March">>
  /\ \E i \in 1..Len(page.filtered) : IsNa(page.filtered[i]["Injury_Month"])
  /\ \E t \in {page.heat_pivot.index[i] : i \in 1..Len(page.heat_pivot.index)} :
       /\ page.heat_pivot.values[t, "March"] = 0
       /\ page.heat_pivot.values[t, "January"] = 1

\* the columns of a table that the naming convention puts in each group
RatingBefore(cols) == cols \cap {RB1, RB2}

RatingAfter(cols) == cols \cap {RA1}

GdBefore(cols) == cols \cap {GB1}

GdMissed(cols) == cols \cap {GM1}

\* m is the unweighted mean of the non-null values of row r in the columns
\* of group, null when there is none
IsRowMean(m, r, group) ==
  LET cs   == SetToSeq({c \in group : NotNa(r[c])})
      vals == [i \in 1..Len(cs) |-> r[cs[i]]]
  IN  IF cs = <<>> THEN IsNa(m)
      ELSE NotNa(m) /\ TimesIs(m, Len(cs), SumSeq(vals, Len(cs)))

\* c is a minus b, null exactly when a or b is null
IsDifference(c, a, b) ==
  IF IsNa(a) \/ IsNa(b) THEN IsNa(c)
  ELSE NotNa(c) /\ Add(c, b) = a

\* C8: in every loaded record the four averages are the unweighted means of
\* the record's non-null cleaned values in their column groups (null for an
\* empty or all-null group), rating_change and performance_drop_index are
\* the differences of their operands (null exactly when an operand is
\* null), and the record is what load_data makes of that row alone.
C8_DerivedMetrics ==
  cache # Unset =>
    /\ Len(cache.rows) = Len(csv.rows)
    /\ \A i \in 1..Len(cache.rows) :
         LET r == cache.rows[i]
         IN  /\ \A c \in csv.cols \cap {RB1, RB2, RA1, GB1, GM1, GA1} :
                  r[c] = clean_numeric(csv.rows[i][c])
             /\ IsRowMean(r["avg_rating_before"], r, RatingBefore(csv.cols))
             /\ IsRowMean(r["avg_rating_after"], r, RatingAfter(csv.cols))
             /\ IsRowMean(r["team_gd_before"], r, GdBefore(csv.cols))
             /\ IsRowMean(r["team_gd_missed"], r, GdMissed(csv.cols))
             /\ IsDifference(r["rating_change"], r["avg_rating_after"], r["avg_rating_before"])
             /\ IsDifference(r[PDI], r["team_gd_before"], r["team_gd_missed"])
             /\ (r["team_gd_before"] = Num(2, 1) /\ r["team_gd_missed"] = Num(-1, 1)) =>
                  r[PDI] = Num(3, 1)
             /\ r = load_data(Table(csv.cols, <<csv.rows[i]>>)).rows[1]

C8_Witness ==
  /\ cache # Unset
  /\ Len(cache.rows) = 2
  /\ csv.cols = {RB1, RB2, RA1}
  /\ cache.rows[1]["avg_rating_before"] = Num(1, 2)
  /\ cache.rows[1]["rating_change"] = Num(3, 2)
  /\ IsNa(csv.rows[2][RB1]) = FALSE
  /\ IsNa(cache.rows[2][RB1])
  /\ cache.rows[2]["avg_rating_before"] = Num(2, 1)
  /\ IsNa(cache.rows[2]["rating_change"])

\* C9: whatever the user does, the dataset load_data produced is never
\* modified: after every run the dataset main worked on is the cached one,
\* the cached one is what load_data makes of the file, and the file has
\* been parsed once.
C9_DatasetImmutable ==
  /\ parses <= 1
  /\ Rendered => /\ parses = 1
                 /\ df = cache
                 /\ cache = load_data(csv)

C9_Witness ==
  /\ Rendered
  /\ team_filter # {}
  /\ player_filter # {}
  /\ page.total_injuries > 0
  /\ page.total_injuries < Len(cache.rows)
  /\ page.visual5 = "chart"

HasSeason(r) == NotNa(r["Season"])

\* what a page shows is free of records without a season
NoSeasonlessShown ==
  /\ \A i \in 1..Len(page.filtered) : HasSeason(page.filtered[i])
  /\ page.total_injuries = Len(page.filtered)
  /\ page.visual1 # "info" =>
       \A i \in 1..Len(page.top_drops) : HasSeason(page.top_drops[i])
  /\ page.visual2 = "chart" =>
       \A i \in 1..Len(page.timeline_df) : NotNa(page.timeline_df[i].Season)
  /\ page.visual4 = "chart" =>
       \A i \in 1..Len(page.scatter_df) : HasSeason(page.scatter_df[i])

\* C10, on one step: the first run selects every season of the dataset and
\* no team or player, and shows the dataset without its seasonless records;
\* after any run with a season selected, nothing shown holds a seasonless
\* record.
FirstRenderAndSeasonSelection ==
  /\ (page = Unset /\ page' # Unset /\ "Season" \in df'.cols) =>
       /\ season_filter' = Unique(df'.rows, "Season")
       /\ team_filter' = {}
       /\ player_filter' = {}
       /\ season_filter' # {} => page'.filtered = SelectSeq(df'.rows, HasSeason)
  /\ (page' # Unset /\ season_filter' # {}) => NoSeasonlessShown'

====
